---- MODULE Spec2Model ----
(***************************************************************************)
(* Model of the `ahc commit` pipeline of ahc-tools (src/src/commit.rs):    *)
(* change detection against the staging area, result-file selection, the   *)
(* score-derived commit message, the interactive fallback and the commit   *)
(* writer, together with the repository and working directory they act on. *)
(*                                                                         *)
(* Strings are sequences of one-character strings, so that matching,       *)
(* ordering, trimming and formatting are computed character by character.  *)
(***************************************************************************)
EXTENDS Integers, Sequences, FiniteSets, TLC

(***************************************************************************)
(* Bytes and strings                                                       *)
(***************************************************************************)

\* The printable ASCII characters in byte order, from 32 (space) to 126
\* (byte 96, the grave accent, is spelled out: the lexer does not take it).
Printable ==
  << " ", "!", "\"", "#", "$", "%", "&", "'", "(", ")", "*", "+", ",", "-", ".", "/",
     "0", "1", "2", "3", "4", "5", "6", "7", "8", "9", ":", ";", "<", "=", ">", "?",
     "@", "A", "B", "C", "D", "E", "F", "G", "H", "I", "J", "K", "L", "M", "N", "O",
     "P", "Q", "R", "S", "T", "U", "V", "W", "X", "Y", "Z", "[", "\\", "]", "^", "_",
     "grave", "a", "b", "c", "d", "e", "f", "g", "h", "i", "j", "k", "l", "m", "n", "o",
     "p", "q", "r", "s", "t", "u", "v", "w", "x", "y", "z", "{", "|", "}", "~" >>

\* The byte value of a character (tab, line feed and carriage return included).
Byte(c) ==
  CASE c = "\t" -> 9
    [] c = "\n" -> 10
    [] c = "\r" -> 13
    [] OTHER -> 31 + (CHOOSE i \in 1..Len(Printable) : Printable[i] = c)

\* The character of a printable byte value.
Chr(b) == Printable[b - 31]

\* [0-9] of the regular expression.
IsDigit(c) == Byte(c) >= Byte("0") /\ Byte(c) <= Byte("9")

\* The white space str::trim strips (ASCII part).
IsWhitespace(c) == c \in {" ", "\t", "\n", "\r"}

\* Byte-wise lexicographic comparison, as Ord for OsStr / str: -1, 0 or 1.
RECURSIVE StrCmpFrom(_, _, _)
StrCmpFrom(a, b, i) ==
  IF i > Len(a) /\ i > Len(b) THEN 0
  ELSE IF i > Len(a) THEN -1
  ELSE IF i > Len(b) THEN 1
  ELSE IF Byte(a[i]) < Byte(b[i]) THEN -1
  ELSE IF Byte(a[i]) > Byte(b[i]) THEN 1
  ELSE StrCmpFrom(a, b, i + 1)

StrCmp(a, b) == StrCmpFrom(a, b, 1)

\* str::trim: strip leading and trailing white space.
RECURSIVE TrimStart(_)
TrimStart(s) ==
  IF s # <<>> /\ IsWhitespace(Head(s)) THEN TrimStart(Tail(s)) ELSE s

RECURSIVE TrimEnd(_)
TrimEnd(s) ==
  IF s # <<>> /\ IsWhitespace(s[Len(s)]) THEN TrimEnd(SubSeq(s, 1, Len(s) - 1)) ELSE s

Trim(s) == TrimEnd(TrimStart(s))

\* str::to_lowercase on ASCII text.
LowerChar(c) ==
  IF ~IsWhitespace(c) /\ Byte(c) >= Byte("A") /\ Byte(c) <= Byte("Z")
  THEN Chr(Byte(c) + (Byte("a") - Byte("A")))
  ELSE c

ToLowercase(s) == [i \in 1..Len(s) |-> LowerChar(s[i])]

\* Decimal digits of a natural number.
RECURSIVE NatToStr(_)
NatToStr(n) ==
  IF n < 10 THEN << Chr(Byte("0") + n) >>
  ELSE NatToStr(n \div 10) \o << Chr(Byte("0") + (n % 10)) >>

(***************************************************************************)
(* Paths                                                                   *)
(***************************************************************************)

\* Path::file_name: the component after the last slash.
RECURSIVE LastSlash(_, _)
LastSlash(p, i) ==
  IF i = 0 THEN 0 ELSE IF p[i] = "/" THEN i ELSE LastSlash(p, i - 1)

file_name(p) == SubSeq(p, LastSlash(p, Len(p)) + 1, Len(p))

(***************************************************************************)
(* Result File Selector: filter_and_sort_result_files                      *)
(***************************************************************************)

\* The literal parts and the repetition counts of the pattern
\* result_[0-9]{8}_[0-9]{6}\.json
RePrefix == << "r", "e", "s", "u", "l", "t", "_" >>
ReDateDigits == 8
ReSeparator == << "_" >>
ReTimeDigits == 6
ReSuffix == << ".", "j", "s", "o", "n" >>

\* The literal lit stands in s at position i.
LiteralAt(s, i, lit) ==
  /\ i + Len(lit) - 1 <= Len(s)
  /\ \A k \in 1..Len(lit) : s[i + k - 1] = lit[k]

\* n digits stand in s at position i.
DigitsAt(s, i, n) ==
  /\ i + n - 1 <= Len(s)
  /\ \A k \in 0..(n - 1) : IsDigit(s[i + k])

\* The whole pattern stands in s at position i; RegexEnd is the position after it.
RegexEnd(i) ==
  i + Len(RePrefix) + ReDateDigits + Len(ReSeparator) + ReTimeDigits + Len(ReSuffix)

RegexAt(s, i) ==
  /\ LiteralAt(s, i, RePrefix)
  /\ DigitsAt(s, i + Len(RePrefix), ReDateDigits)
  /\ LiteralAt(s, i + Len(RePrefix) + ReDateDigits, ReSeparator)
  /\ DigitsAt(s, i + Len(RePrefix) + ReDateDigits + Len(ReSeparator), ReTimeDigits)
  /\ LiteralAt(s, i + Len(RePrefix) + ReDateDigits + Len(ReSeparator) + ReTimeDigits,
               ReSuffix)

\* Regex::is_match: the pattern carries no anchors, so it is searched for
\* at every position of the text.
re_is_match(s) == \E i \in 1..Len(s) : RegexAt(s, i)

\* The filter closure: the pattern applied to the file name of the path.
is_result_file(path) == re_is_match(file_name(path))

\* Iterator::filter, keeping the order of the slice.
RECURSIVE FilterResultFiles(_)
FilterResultFiles(paths) ==
  IF paths = <<>> THEN <<>>
  ELSE IF is_result_file(Head(paths))
       THEN <<Head(paths)>> \o FilterResultFiles(Tail(paths))
       ELSE FilterResultFiles(Tail(paths))

\* The comparator of sort_by: b.file_name().cmp(a.file_name()).
sort_cmp(a, b) == StrCmp(file_name(b), file_name(a))

\* slice::sort_by is a stable sort: an element goes behind every element
\* that the comparator does not order after it.
RECURSIVE InsertSorted(_, _)
InsertSorted(sorted, x) ==
  IF sorted = <<>> THEN <<x>>
  ELSE IF sort_cmp(Head(sorted), x) <= 0
       THEN <<Head(sorted)>> \o InsertSorted(Tail(sorted), x)
       ELSE <<x>> \o sorted

RECURSIVE SortBy(_)
SortBy(paths) ==
  IF paths = <<>> THEN <<>>
  ELSE InsertSorted(SortBy(SubSeq(paths, 1, Len(paths) - 1)), paths[Len(paths)])

filter_and_sort_result_files(updated_file_paths) ==
  SortBy(FilterResultFiles(updated_file_paths))

(***************************************************************************)
(* Result Artifact Model and Score-Derived Message Builder                 *)
(***************************************************************************)

\* A file's contents: either text that is no JSON document, or a JSON object
\* given by its members <<name, type, value>>.
Text == [json |-> FALSE, obj |-> {}]
Json(members) == [json |-> TRUE, obj |-> members]
ExecJson(c, t) == Json({<<"case_count", "uint", c>>, <<"total_score", "uint", t>>})

\* The fields of struct ExecResult, both usize.
ExecResultFields == {"case_count", "total_score"}

ExecResult(c, t) == [case_count |-> c, total_score |-> t]

Ok(v) == [ok |-> TRUE, value |-> v]
Err(e) == [ok |-> FALSE, value |-> e]

\* The value of member name of a JSON object that has exactly one.
Member(doc, name) == CHOOSE m \in doc.obj : m[1] = name

\* serde_json::from_reader into ExecResult: the text must be a JSON object
\* that has each field once, as an unsigned integer; other members are
\* ignored.
from_reader(doc) ==
  IF /\ doc.json
     /\ \A f \in ExecResultFields :
          /\ Cardinality({m \in doc.obj : m[1] = f}) = 1
          /\ Member(doc, f)[2] = "uint"
  THEN Ok(ExecResult(Member(doc, "case_count")[3], Member(doc, "total_score")[3]))
  ELSE Err("serde_json")

\* {:.2} of the f64 quotient total / count for count > 0, in hundredths:
\* the quotient rounded to the nearest hundredth, an exact half going to the
\* even neighbour.  The quotient is an exact half of a hundredth only as an
\* odd multiple of 1/200; for count < 40 that is an odd multiple of 1/8,
\* which f64 represents exactly, and every other quotient is further from
\* a half than the f64 rounding error.
\* The hundredths cut off instead of rounded.
Hundredths_truncated(total, count) == (total * 100) \div count

Hundredths(total, count) ==
  LET q == (total * 100) \div count
      r == (total * 100) % count
  IN  IF 2 * r > count THEN q + 1
      ELSE IF 2 * r < count THEN q
      ELSE IF q % 2 = 0 THEN q ELSE q + 1

\* The text of {:.2} for a finite value given in hundredths.
FormatHundredths(h) ==
  NatToStr(h \div 100) \o <<".">> \o NatToStr((h % 100) \div 10) \o NatToStr(h % 10)

\* format!("{:.2}", total_score as f64 / case_count as f64): a zero divisor
\* gives the non-finite values, which print as NaN and inf.
FormatAvg(total, count) ==
  IF count = 0
  THEN IF total = 0 THEN <<"N", "a", "N">> ELSE <<"i", "n", "f">>
  ELSE FormatHundredths(Hundredths(total, count))

\* The quotient taken in integers: the fraction is lost before formatting.
build_commit_message_integer_division(msg, result) ==
  <<"(">> \o (IF result.case_count = 0
              THEN FormatAvg(result.total_score, result.case_count)
              ELSE FormatHundredths(100 * (result.total_score \div result.case_count)))
         \o <<")", " ">> \o msg

build_commit_message(msg, result) ==
  <<"(">> \o FormatAvg(result.total_score, result.case_count) \o <<")", " ">> \o msg

(***************************************************************************)
(* Sample data                                                             *)
(***************************************************************************)

\* "result_20210901_123456.json"
PathResultA ==
  << "r", "e", "s", "u", "l", "t", "_", "2", "0", "2", "1", "0", "9", "0", "1", "_",
     "1", "2", "3", "4", "5", "6", ".", "j", "s", "o", "n" >>

\* "pahcer/json/result_20210901_234567.json"
PathResultB ==
  << "p", "a", "h", "c", "e", "r", "/", "j", "s", "o", "n", "/", "r", "e", "s", "u",
     "l", "t", "_", "2", "0", "2", "1", "0", "9", "0", "1", "_", "2", "3", "4", "5",
     "6", "7", ".", "j", "s", "o", "n" >>

\* "unrelated.txt"
PathUnrelated ==
  << "u", "n", "r", "e", "l", "a", "t", "e", "d", ".", "t", "x", "t" >>

\* "file.txt"
PathFile ==
  << "f", "i", "l", "e", ".", "t", "x", "t" >>

\* "out/result_20210901_234567.json.bak"
PathBackup ==
  << "o", "u", "t", "/", "r", "e", "s", "u", "l", "t", "_", "2", "0", "2", "1", "0",
     "9", "0", "1", "_", "2", "3", "4", "5", "6", "7", ".", "j", "s", "o", "n", ".",
     "b", "a", "k" >>

\* "old_result_20210901_123456.json"
PathPrefixed ==
  << "o", "l", "d", "_", "r", "e", "s", "u", "l", "t", "_", "2", "0", "2", "1", "0",
     "9", "0", "1", "_", "1", "2", "3", "4", "5", "6", ".", "j", "s", "o", "n" >>

\* "result_2021090_123456.json"
PathShortDate ==
  << "r", "e", "s", "u", "l", "t", "_", "2", "0", "2", "1", "0", "9", "0", "_", "1",
     "2", "3", "4", "5", "6", ".", "j", "s", "o", "n" >>

\* "result_20210901_1234567.json"
PathLongTime ==
  << "r", "e", "s", "u", "l", "t", "_", "2", "0", "2", "1", "0", "9", "0", "1", "_",
     "1", "2", "3", "4", "5", "6", "7", ".", "j", "s", "o", "n" >>

\* "z/result_20210901_123456.json"
PathSameName ==
  << "z", "/", "r", "e", "s", "u", "l", "t", "_", "2", "0", "2", "1", "0", "9", "0",
     "1", "_", "1", "2", "3", "4", "5", "6", ".", "j", "s", "o", "n" >>

\* "result_20210901_123456.json/notes.txt"
PathInDir ==
  << "r", "e", "s", "u", "l", "t", "_", "2", "0", "2", "1", "0", "9", "0", "1", "_",
     "1", "2", "3", "4", "5", "6", ".", "j", "s", "o", "n", "/", "n", "o", "t", "e",
     "s", ".", "t", "x", "t" >>

\* The paths the selector is applied to.
SelectorPaths ==
  { PathResultA, PathResultB, PathUnrelated, PathBackup, PathPrefixed,
    PathShortDate, PathLongTime, PathSameName, PathInDir }

\* The paths of the repository and its working directory.
RepoPaths == { PathFile, PathResultA, PathResultB, PathBackup }

\* " fix it "
MsgFix == << " ", "f", "i", "x", " ", "i", "t", " " >>

\* "Test commit message"
MsgTest ==
  << "T", "e", "s", "t", " ", "c", "o", "m", "m", "i", "t", " ", "m", "e", "s", "s",
     "a", "g", "e" >>

\* The messages given on the command line.
Messages == { <<>>, MsgFix }

\* What the files of the working directory may hold.
ContentsOf(p) ==
  IF p = PathResultA
  THEN { ExecJson(2, 10), ExecJson(0, 5), ExecJson(0, 0),
         Json({<<"case_count", "uint", 2>>}) }
  ELSE IF p = PathResultB
  THEN { Json({<<"case_count", "uint", 3>>, <<"total_score", "uint", 2>>,
               <<"seed", "uint", 7>>}),
         Json({<<"case_count", "string", 2>>, <<"total_score", "uint", 10>>}) }
  ELSE IF p = PathBackup
  THEN { Text, ExecJson(8, 1) }
  ELSE { Text }

\* The lines the operator may type (the empty one is an end of input).
AnswerLines ==
  { << "y", "\n" >>, << " ", "Y", " ", "\r", "\n" >>, << "n", "\n" >>,
    << "y", "e", "s", "\n" >>, << >> }

\* The bounds of the model.
MaxSelLen == 3
MaxEnvOps == 4
MaxCommits == 3
MaxCaseCount == 8
MaxTotalScore == 12

(***************************************************************************)
(* Repository and working directory                                        *)
(***************************************************************************)

VARIABLES
  commits,            \* the commit graph: commits[i] = [tree, parents, message]
  head,               \* the commit HEAD resolves to; 0 when HEAD is unborn
  index,              \* the staging area: path -> entry
  workdir,            \* the files on disk, seen from the current directory
  pc,                 \* where the run of commit() stands; "idle" between runs
  message,            \* args.message
  env,                \* the environment of the run
  updated_file_paths, \* the result of list_updated_files
  result_file_paths,  \* the result of filter_and_sort_result_files
  result,             \* the ExecResult read from the selected file
  commit_message,     \* the message handed to commit_staged
  outcome,            \* "running", "ok" or the error commit() returns
  input,              \* the line read at the prompt
  steps,              \* the steps the run has taken
  commits0,           \* the number of commits when the run began
  head0,              \* HEAD when the run began
  index0,             \* the staging area when the run began
  prev_committed,     \* the run before ended in a commit, nothing staged since
  ops,                \* changes made to the files and the staging area so far
  sel_in,             \* selector alone: the changed-file sequence
  sel_out,            \* selector alone: its result
  sel_pc,             \* selector alone: "input" or "output"
  fmt_msg,            \* message builder alone: args.message
  fmt_result,         \* message builder alone: the ExecResult
  fmt_out,            \* message builder alone: its result
  fmt_pc              \* message builder alone: "input" or "output"

repo_vars == << commits, head, index, workdir >>
run_vars ==
  << pc, message, env, updated_file_paths, result_file_paths, result,
     commit_message, outcome, input, steps, commits0, head0, index0 >>
sel_vars == << sel_in, sel_out, sel_pc >>
fmt_vars == << fmt_msg, fmt_result, fmt_out, fmt_pc >>
vars == << repo_vars, run_vars, prev_committed, ops, sel_vars, fmt_vars >>

\* Entries of a tree, of the staging area and of the working directory.
Absent == [kind |-> "absent", data |-> Text]
Dir == [kind |-> "dir", data |-> Text]
File(c) == [kind |-> "file", data |-> c]

EmptyTree == [p \in RepoPaths |-> Absent]

\* The paths of a set in byte order, the order of the deltas of a diff.
RECURSIVE SortedPaths(_)
SortedPaths(S) ==
  IF S = {} THEN <<>>
  ELSE LET least == CHOOSE p \in S : \A q \in S : StrCmp(p, q) <= 0
       IN  <<least>> \o SortedPaths(S \ {least})

\* The tree compared with the files on disk instead of the staging area.
diff_tree_to_workdir(tree, idx) == SortedPaths({p \in RepoPaths : tree[p] # workdir[p]})

\* Repository::diff_tree_to_index: one delta for each path whose entry in
\* the tree differs from its entry in the staging area (added, deleted or
\* modified); the working directory plays no part.
diff_tree_to_index(tree, idx) == SortedPaths({p \in RepoPaths : tree[p] # idx[p]})

\* Path::is_dir of a delta's relative path: asks the file system.
is_dir(wd, path) == wd[path].kind = "dir"

\* The callback of diff.foreach: a path that is a directory is skipped.
RECURSIVE CollectFiles(_, _)
CollectFiles(wd, deltas) ==
  IF deltas = <<>> THEN <<>>
  ELSE IF is_dir(wd, Head(deltas))
       THEN CollectFiles(wd, Tail(deltas))
       ELSE <<Head(deltas)>> \o CollectFiles(wd, Tail(deltas))

\* An unborn HEAD taken as the empty tree, as git status does before the
\* first commit.
list_updated_files_unborn_as_empty(cs, hd, idx, wd) ==
  LET diff == diff_tree_to_index(IF hd = 0 THEN EmptyTree ELSE cs[hd].tree, idx)
  IN  IF Len(diff) = 0 THEN Ok(<<>>) ELSE Ok(CollectFiles(wd, diff))

list_updated_files(cs, hd, idx, wd) ==
  IF hd = 0 THEN Err("git2")
  ELSE LET diff == diff_tree_to_index(cs[hd].tree, idx)
       IN  IF Len(diff) = 0 THEN Ok(<<>>) ELSE Ok(CollectFiles(wd, diff))

\* A file that does not open or parse read as the default ExecResult.
read_exec_result_or_default(wd, paths) ==
  LET latest_file_path == paths[1]
  IN  IF wd[latest_file_path].kind # "file" THEN Ok(ExecResult(0, 0))
      ELSE LET r == from_reader(wd[latest_file_path].data)
           IN  IF r.ok THEN r ELSE Ok(ExecResult(0, 0))

\* A parsed result with no cases turned down as malformed.
read_exec_result_rejects_zero(wd, paths) ==
  LET latest_file_path == paths[1]
  IN  IF wd[latest_file_path].kind # "file" THEN Err("io")
      ELSE LET r == from_reader(wd[latest_file_path].data)
           IN  IF r.ok /\ r.value.case_count = 0 THEN Err("serde_json") ELSE r

\* File::open of the first path under the working directory, then the parse.
read_exec_result(wd, paths) ==
  LET latest_file_path == paths[1]
  IN  IF wd[latest_file_path].kind # "file" THEN Err("io")
      ELSE from_reader(wd[latest_file_path].data)

\* The commit written with no reference to update: HEAD stays.
commit_staged_head_not_moved(cs, hd, idx, identity, msg) ==
  IF ~identity \/ hd = 0 THEN Err("git2")
  ELSE Ok([commits |-> Append(cs, [tree |-> idx, parents |-> <<hd>>, message |-> msg]),
           head |-> hd])

\* The commit written with an empty list of parents.
commit_staged_no_parent(cs, hd, idx, identity, msg) ==
  IF ~identity \/ hd = 0 THEN Err("git2")
  ELSE Ok([commits |-> Append(cs, [tree |-> idx, parents |-> <<>>, message |-> msg]),
           head |-> Len(cs) + 1])

\* commit_staged: the staging area written as a tree, the signature, HEAD
\* peeled to the parent commit, and the commit that HEAD is moved to.
commit_staged(cs, hd, idx, identity, msg) ==
  IF ~identity \/ hd = 0 THEN Err("git2")
  ELSE Ok([commits |-> Append(cs, [tree |-> idx, parents |-> <<hd>>, message |-> msg]),
           head |-> Len(cs) + 1])

(***************************************************************************)
(* The run of commit(), step by step                                       *)
(***************************************************************************)

\* The environments of a run: the current directory lies in a repository
\* or not, and a user name and email are configured or not.
Envs ==
  { [cwd_in_repo |-> TRUE, identity |-> TRUE],
    [cwd_in_repo |-> TRUE, identity |-> FALSE],
    [cwd_in_repo |-> FALSE, identity |-> TRUE] }

\* What read_line gives: a line, or an error of the stream.
Inputs == { [ok |-> TRUE, line |-> l] : l \in AnswerLines } \cup { [ok |-> FALSE, line |-> <<>>] }

NoResult == ExecResult(0, 0)
NoInput == [ok |-> TRUE, line |-> <<>>]

\* The variables of a run before it begins.
RunReset(cs, hd, idx) ==
  /\ message' = <<>>
  /\ env' = [cwd_in_repo |-> TRUE, identity |-> TRUE]
  /\ updated_file_paths' = <<>>
  /\ result_file_paths' = <<>>
  /\ result' = NoResult
  /\ commit_message' = <<>>
  /\ outcome' = "none"
  /\ input' = NoInput
  /\ steps' = {}
  /\ commits0' = Len(cs)
  /\ head0' = hd
  /\ index0' = idx

\* The run ends with the value commit() returns.
Finish(r) ==
  /\ pc' = "done"
  /\ outcome' = r

\* `ahc commit <message>` is started.
Invoke(m, e) ==
  /\ pc = "idle"
  /\ Len(commits) < MaxCommits
  /\ pc' = "check_message"
  /\ message' = m
  /\ env' = e
  /\ outcome' = "running"
  /\ UNCHANGED << repo_vars, updated_file_paths, result_file_paths, result,
                  commit_message, input, steps, commits0, head0, index0,
                  prev_committed, ops, sel_vars, fmt_vars >>

\* The message is not looked at: the run goes on to open the repository.
CheckMessageSkipped ==
  /\ pc = "check_message"
  /\ pc' = "open"
  /\ UNCHANGED << repo_vars, message, env, updated_file_paths, result_file_paths,
                  result, commit_message, outcome, input, steps, commits0, head0,
                  index0, prev_committed, ops, sel_vars, fmt_vars >>

\* commit.rs 15-17: an empty message is an error.
CheckMessage ==
  /\ pc = "check_message"
  /\ IF message = <<>>
     THEN Finish("Commit message is empty")
     ELSE pc' = "open" /\ UNCHANGED outcome
  /\ UNCHANGED << repo_vars, message, env, updated_file_paths, result_file_paths,
                  result, commit_message, input, steps, commits0, head0, index0,
                  prev_committed, ops, sel_vars, fmt_vars >>

\* commit.rs 19: Repository::open_from_env.
OpenRepository ==
  /\ pc = "open"
  /\ steps' = steps \cup {"open"}
  /\ IF env.cwd_in_repo
     THEN pc' = "list" /\ UNCHANGED outcome
     ELSE Finish("Failed to open git repository")
  /\ UNCHANGED << repo_vars, message, env, updated_file_paths, result_file_paths,
                  result, commit_message, input, commits0, head0, index0,
                  prev_committed, ops, sel_vars, fmt_vars >>

\* commit.rs 20-24: list_updated_files and the test for no changes.
ListUpdatedFiles ==
  /\ pc = "list"
  /\ LET r == list_updated_files(commits, head, index, workdir)
     IN  /\ steps' = steps \cup {"head"} \cup (IF head = 0 THEN {} ELSE {"diff"})
         /\ IF ~r.ok
            THEN Finish(r.value) /\ UNCHANGED updated_file_paths
            ELSE IF r.value = <<>>
            THEN Finish("Nothing to commit") /\ UNCHANGED updated_file_paths
            ELSE /\ updated_file_paths' = r.value
                 /\ pc' = "filter"
                 /\ UNCHANGED outcome
  /\ UNCHANGED << repo_vars, message, env, result_file_paths, result,
                  commit_message, input, commits0, head0, index0,
                  prev_committed, ops, sel_vars, fmt_vars >>

\* commit.rs 26-28: filter_and_sort_result_files and the test for no result file.
FilterAndSort ==
  /\ pc = "filter"
  /\ steps' = steps \cup {"select"}
  /\ result_file_paths' = filter_and_sort_result_files(updated_file_paths)
  /\ pc' = IF result_file_paths' = <<>> THEN "prompt" ELSE "read"
  /\ UNCHANGED << repo_vars, message, env, updated_file_paths, result,
                  commit_message, outcome, input, commits0, head0, index0,
                  prev_committed, ops, sel_vars, fmt_vars >>

\* commit.rs 34: the answer counts as yes.
is_yes(line) == ToLowercase(Trim(line)) = <<"y">>

\* commit.rs 29-38: the prompt, the line read, and the literal message.
Prompt(inp) ==
  /\ pc = "prompt"
  /\ steps' = steps \cup {"prompt"}
  /\ input' = inp
  /\ IF ~inp.ok
     THEN Finish("io") /\ UNCHANGED commit_message
     ELSE IF ~is_yes(inp.line)
     THEN Finish("ok") /\ UNCHANGED commit_message
     ELSE /\ commit_message' = message
          /\ pc' = "commit_staged"
          /\ UNCHANGED outcome
  /\ UNCHANGED << repo_vars, message, env, updated_file_paths, result_file_paths,
                  result, commits0, head0, index0, prev_committed, ops,
                  sel_vars, fmt_vars >>

\* commit.rs 41-42: read_exec_result and build_commit_message.
ReadExecResult ==
  /\ pc = "read"
  /\ steps' = steps \cup {"read"}
  /\ LET r == read_exec_result(workdir, result_file_paths)
     IN  IF ~r.ok
         THEN Finish(r.value) /\ UNCHANGED << result, commit_message >>
         ELSE /\ result' = r.value
              /\ commit_message' = build_commit_message(message, r.value)
              /\ pc' = "commit_staged"
              /\ UNCHANGED outcome
  /\ UNCHANGED << repo_vars, message, env, updated_file_paths, result_file_paths,
                  input, commits0, head0, index0, prev_committed, ops,
                  sel_vars, fmt_vars >>

\* commit.rs 38 and 44: commit_staged with the message made.
CommitStaged ==
  /\ pc = "commit_staged"
  /\ steps' = steps \cup {"write"}
  /\ LET r == commit_staged(commits, head, index, env.identity, commit_message)
     IN  IF ~r.ok
         THEN Finish(r.value) /\ UNCHANGED << commits, head >>
         ELSE /\ commits' = r.value.commits
              /\ head' = r.value.head
              /\ Finish("ok")
  /\ UNCHANGED << index, workdir, message, env, updated_file_paths,
                  result_file_paths, result, commit_message, input, commits0,
                  head0, index0, prev_committed, ops, sel_vars, fmt_vars >>

\* The process exits; the next run starts afresh.
Return ==
  /\ pc = "done"
  /\ pc' = "idle"
  /\ prev_committed' = (outcome = "ok" /\ Len(commits) > commits0)
  /\ RunReset(commits, head, index)
  /\ UNCHANGED << repo_vars, ops, sel_vars, fmt_vars >>

(***************************************************************************)
(* The operator at work between runs                                       *)
(***************************************************************************)

\* A file is written in the working directory.
WriteFile(p, c) ==
  /\ pc = "idle"
  /\ ops < MaxEnvOps
  /\ workdir[p] # File(c)
  /\ workdir' = [workdir EXCEPT ![p] = File(c)]
  /\ ops' = ops + 1
  /\ UNCHANGED << commits, head, index, run_vars, prev_committed, sel_vars, fmt_vars >>

\* A directory takes the place of a path in the working directory.
MakeDir(p) ==
  /\ pc = "idle"
  /\ ops < MaxEnvOps
  /\ workdir[p] # Dir
  /\ workdir' = [workdir EXCEPT ![p] = Dir]
  /\ ops' = ops + 1
  /\ UNCHANGED << commits, head, index, run_vars, prev_committed, sel_vars, fmt_vars >>

\* A path is removed from the working directory.
RemoveFile(p) ==
  /\ pc = "idle"
  /\ ops < MaxEnvOps
  /\ workdir[p] # Absent
  /\ workdir' = [workdir EXCEPT ![p] = Absent]
  /\ ops' = ops + 1
  /\ UNCHANGED << commits, head, index, run_vars, prev_committed, sel_vars, fmt_vars >>

\* git add: the file, or its removal, is staged.
GitAdd(p) ==
  /\ pc = "idle"
  /\ ops < MaxEnvOps
  /\ workdir[p].kind # "dir"
  /\ index[p] # workdir[p]
  /\ index' = [index EXCEPT ![p] = workdir[p]]
  /\ index0' = index'
  /\ prev_committed' = FALSE
  /\ ops' = ops + 1
  /\ UNCHANGED << commits, head, workdir, pc, message, env, updated_file_paths,
                  result_file_paths, result, commit_message, outcome, input,
                  steps, commits0, head0, sel_vars, fmt_vars >>

(***************************************************************************)
(* Specifications                                                          *)
(***************************************************************************)

\* The commit made by `git commit` before the tool is used.
InitialCommit == [tree |-> EmptyTree, parents |-> <<>>, message |-> <<"i", "n", "i", "t">>]

RepoInit(born) ==
  /\ commits = IF born THEN <<InitialCommit>> ELSE <<>>
  /\ head = IF born THEN 1 ELSE 0
  /\ index = EmptyTree
  /\ workdir = EmptyTree
  /\ pc = "idle"
  /\ message = <<>>
  /\ env = [cwd_in_repo |-> TRUE, identity |-> TRUE]
  /\ updated_file_paths = <<>>
  /\ result_file_paths = <<>>
  /\ result = NoResult
  /\ commit_message = <<>>
  /\ outcome = "none"
  /\ input = NoInput
  /\ steps = {}
  /\ commits0 = Len(commits)
  /\ head0 = head
  /\ index0 = index
  /\ prev_committed = FALSE
  /\ ops = 0

\* The message builder alone is not in use.
FmtOff ==
  /\ fmt_msg = <<>>
  /\ fmt_result = NoResult
  /\ fmt_out = <<>>
  /\ fmt_pc = "off"

Init ==
  /\ \E born \in BOOLEAN : RepoInit(born)
  /\ sel_in = <<>>
  /\ sel_out = <<>>
  /\ sel_pc = "off"
  /\ FmtOff

Next ==
  \/ \E m \in Messages, e \in Envs : Invoke(m, e)
  \/ CheckMessage
  \/ OpenRepository
  \/ ListUpdatedFiles
  \/ FilterAndSort
  \/ \E inp \in Inputs : Prompt(inp)
  \/ ReadExecResult
  \/ CommitStaged
  \/ Return
  \/ \E p \in RepoPaths : \E c \in ContentsOf(p) : WriteFile(p, c)
  \/ \E p \in RepoPaths : MakeDir(p)
  \/ \E p \in RepoPaths : RemoveFile(p)
  \/ \E p \in RepoPaths : GitAdd(p)

Spec == Init /\ [][Next]_vars

\* The selector alone, applied to every sequence of distinct paths.
DistinctSeqs(S, n) ==
  { s \in UNION { [1..k -> S] : k \in 0..n } :
      \A i, j \in 1..Len(s) : i # j => s[i] # s[j] }

SelInit ==
  /\ RepoInit(TRUE)
  /\ sel_in \in DistinctSeqs(SelectorPaths, MaxSelLen)
  /\ sel_out = <<>>
  /\ sel_pc = "input"
  /\ FmtOff

SelApply ==
  /\ sel_pc = "input"
  /\ sel_out' = filter_and_sort_result_files(sel_in)
  /\ sel_pc' = "output"
  /\ UNCHANGED << repo_vars, run_vars, prev_committed, ops, sel_in, fmt_vars >>

SelNext == SelApply

SelSpec == SelInit /\ [][SelNext]_vars

\* The message builder alone, applied to every ExecResult within the
\* bounds (MaxCaseCount stays below 40, see Hundredths) and to each message.
FmtMessages == { MsgFix, MsgTest }

FmtInit ==
  /\ RepoInit(TRUE)
  /\ sel_in = <<>>
  /\ sel_out = <<>>
  /\ sel_pc = "off"
  /\ fmt_msg \in FmtMessages
  /\ fmt_result \in { ExecResult(c, t) : c \in 0..MaxCaseCount, t \in 0..MaxTotalScore }
  /\ fmt_out = <<>>
  /\ fmt_pc = "input"

FmtApply ==
  /\ fmt_pc = "input"
  /\ fmt_out' = build_commit_message(fmt_msg, fmt_result)
  /\ fmt_pc' = "output"
  /\ UNCHANGED << repo_vars, run_vars, prev_committed, ops, sel_vars, fmt_msg,
                  fmt_result >>

FmtNext == FmtApply

FmtSpec == FmtInit /\ [][FmtNext]_vars

(***************************************************************************)
(* Properties                                                              *)
(***************************************************************************)

Range(s) == { s[i] : i \in 1..Len(s) }

\* A run has created a commit.
Committed == Len(commits) = commits0 + 1

\* The commit a run has created.
NewCommit == commits[Len(commits)]

\* s is a number written with exactly two decimals.
IsTwoDecimals(s) ==
  /\ Len(s) >= 4
  /\ s[Len(s) - 2] = "."
  /\ \A i \in 1..Len(s) : i # Len(s) - 2 => IsDigit(s[i])

\* The digits of s read as a natural number, the point left out.
RECURSIVE DigitsValue(_)
DigitsValue(s) ==
  IF s = <<>> THEN 0
  ELSE IF s[Len(s)] = "." THEN DigitsValue(SubSeq(s, 1, Len(s) - 1))
  ELSE 10 * DigitsValue(SubSeq(s, 1, Len(s) - 1)) + (Byte(s[Len(s)]) - Byte("0"))

\* s is total / count to two decimals: no hundredth lies nearer.
IsAverage(s, total, count) ==
  /\ IsTwoDecimals(s)
  /\ 2 * count * DigitsValue(s) - count <= 200 * total
  /\ 200 * total <= 2 * count * DigitsValue(s) + count

\* The text between "(" and ") " of a message that ends in m, if it has that form.
HasScorePrefix(cm, m) ==
  /\ Len(cm) >= Len(m) + 3
  /\ cm[1] = "("
  /\ SubSeq(cm, Len(cm) - Len(m) - 1, Len(cm)) = <<")", " ">> \o m

ScorePrefix(cm, m) == SubSeq(cm, 2, Len(cm) - Len(m) - 2)

\* At most one commit per run, none after an error, and nothing else moved.
OneCommitOrNone ==
  /\ Len(commits) \in {commits0, commits0 + 1}
  /\ ~Committed => head = head0
  /\ Committed => head = Len(commits) /\ pc = "done" /\ outcome = "ok"
  /\ (pc = "done" /\ outcome # "ok") => ~Committed

\* The message of the commit made through the fallback: the literal message.
FallbackMessageOk ==
  (Committed /\ result_file_paths = <<>>) =>
     /\ "prompt" \in steps
     /\ NewCommit.message = message

\* C1 (as stated): every run ends with exactly one new commit whose message
\* is "(<average to two decimals>) <message>" when a result file was
\* selected, or the literal message after the fallback, or with no commit;
\* never more than one commit, and none when the run ends in an error.
C1_AsStated ==
  /\ OneCommitOrNone
  /\ FallbackMessageOk
  /\ (Committed /\ result_file_paths # <<>>) =>
        /\ HasScorePrefix(NewCommit.message, message)
        /\ IsAverage(ScorePrefix(NewCommit.message, message),
                     result.total_score, result.case_count)

\* C1 (amended): as C1, the score prefix being the average to two decimals
\* when case_count > 0 and the text of the non-finite quotient, inf or NaN,
\* when case_count = 0.
C1_OneWellFormedCommitOrNone ==
  /\ OneCommitOrNone
  /\ FallbackMessageOk
  /\ (Committed /\ result_file_paths # <<>>) =>
        /\ HasScorePrefix(NewCommit.message, message)
        /\ LET prefix == ScorePrefix(NewCommit.message, message)
           IN  IF result.case_count > 0
               THEN IsAverage(prefix, result.total_score, result.case_count)
               ELSE prefix = IF result.total_score = 0
                             THEN <<"N", "a", "N">> ELSE <<"i", "n", "f">>

\* A run has committed with the score of a result file whose average is
\* no whole number.
C1_Witness ==
  /\ pc = "done"
  /\ Committed
  /\ result_file_paths # <<>>
  /\ result.case_count > 0
  /\ result.total_score % result.case_count # 0

\* The name has the form result_<8 digits>_<6 digits>.json, nothing before
\* and nothing after.
IsResultName(name) ==
  /\ Len(name) = RegexEnd(1) - 1
  /\ RegexAt(name, 1)

\* C2: when some changed path has a result-file name, the first path of the
\* selector's result has a result-file name, and no changed path with a
\* result-file name has a greater one.
C2_LatestResultFirst ==
  (sel_pc = "output" /\ \E p \in Range(sel_in) : IsResultName(file_name(p))) =>
     /\ sel_out # <<>>
     /\ sel_out[1] \in Range(sel_in)
     /\ IsResultName(file_name(sel_out[1]))
     /\ \A q \in Range(sel_in) :
          IsResultName(file_name(q)) =>
             StrCmp(file_name(q), file_name(sel_out[1])) <= 0

\* The paths that differ between the tree HEAD had when the run began and
\* the staging area.
ChangedPaths == { p \in RepoPaths : commits[head0].tree[p] # index0[p] }

\* C3: with changes staged and no result-file name among them, the run
\* comes to the prompt; it commits exactly when the trimmed, lower-cased
\* line is "y", then with the message as given; otherwise it ends well
\* without a commit.  (Stated for runs whose commit writer can succeed and
\* whose input can be read.)
C3_FallbackDecidesCommit ==
  ( /\ pc = "done"
    /\ message # <<>>
    /\ env.cwd_in_repo
    /\ env.identity
    /\ head0 # 0
    /\ ChangedPaths # {}
    /\ \A p \in ChangedPaths : ~IsResultName(file_name(p)) ) =>
       /\ "prompt" \in steps
       /\ input.ok
           => /\ Committed <=> ToLowercase(Trim(input.line)) = <<"y">>
              /\ Committed => NewCommit.message = message
              /\ ~Committed => outcome = "ok"

\* C4: a run with an empty message ends at once with the input error,
\* having taken no step on the repository, which stays as it was.
C4_EmptyMessageRejectedFirst ==
  (pc # "idle" /\ message = <<>>) =>
     /\ steps = {}
     /\ pc \in {"check_message", "done"}
     /\ pc = "done" => outcome = "Commit message is empty"
     /\ Len(commits) = commits0
     /\ head = head0
     /\ index = index0

\* An empty message has been rejected while changes were staged.
C4_Witness ==
  /\ pc = "done"
  /\ message = <<>>
  /\ head # 0
  /\ index # commits[head].tree

\* C5: when the staging area equals the tree of HEAD, a run with a message
\* fails with Nothing to commit, never selects, prompts or writes, and
\* leaves HEAD and the staging area alone.
C5_NothingToCommit ==
  ( /\ pc \notin {"idle", "check_message", "open", "list"}
    /\ message # <<>>
    /\ env.cwd_in_repo
    /\ head0 # 0
    /\ index0 = commits[head0].tree ) =>
       /\ pc = "done"
       /\ outcome = "Nothing to commit"
       /\ steps \cap {"select", "prompt", "read", "write"} = {}
       /\ Len(commits) = commits0
       /\ head = head0
       /\ index = index0

\* Nothing to commit has been reported although the working directory
\* holds a file that is not staged.
C5_Witness ==
  /\ pc = "done"
  /\ outcome = "Nothing to commit"
  /\ head0 # 0
  /\ index0 = commits[head0].tree
  /\ \E p \in RepoPaths : workdir[p].kind = "file" /\ workdir[p] # index[p]

\* The file at the path is there and holds a JSON object with case_count
\* and total_score as unsigned integers.
IsExecResultFile(entry) ==
  /\ entry.kind = "file"
  /\ entry.data.json
  /\ \A f \in {"case_count", "total_score"} :
       \E m \in entry.data.obj : m[1] = f /\ m[2] = "uint"

\* C6: when the selected result file cannot be opened or does not parse
\* into an ExecResult, the run fails, the commit writer is not called and
\* no commit is made.
C6_BadArtifactAborts ==
  ( /\ "read" \in steps
    /\ ~IsExecResultFile(workdir[result_file_paths[1]]) ) =>
       /\ pc = "done"
       /\ outcome \in {"io", "serde_json"}
       /\ "write" \notin steps
       /\ ~Committed
       /\ head = head0

\* A run has failed on a selected file that is there but does not parse.
C6_Witness ==
  /\ pc = "done"
  /\ "read" \in steps
  /\ workdir[result_file_paths[1]].kind = "file"
  /\ ~IsExecResultFile(workdir[result_file_paths[1]])
  /\ index # commits[head].tree

\* C7: the run after a run that committed, nothing staged in between,
\* fails with Nothing to commit and makes no commit.
C7_SecondRunNothingToCommit ==
  ( /\ pc = "done"
    /\ prev_committed
    /\ message # <<>>
    /\ env.cwd_in_repo ) =>
       /\ outcome = "Nothing to commit"
       /\ ~Committed
       /\ head = head0

\* The second of two such runs has ended.
C7_Witness ==
  /\ pc = "done"
  /\ prev_committed
  /\ message # <<>>
  /\ env.cwd_in_repo
  /\ Len(commits) >= 2

\* C8: when commit_staged succeeds there is exactly one new commit, its
\* only parent the commit HEAD was at, its tree the staging area, and HEAD
\* is at it; what differs only in the working directory is not in the tree.
C8_CommitOfStagedTree ==
  ("write" \in steps /\ outcome = "ok") =>
     /\ Len(commits) = commits0 + 1
     /\ NewCommit.parents = <<head0>>
     /\ NewCommit.tree = index0
     /\ head = Len(commits)
     /\ \A p \in RepoPaths : workdir[p] # index0[p] => NewCommit.tree[p] # workdir[p]

\* commit_staged has succeeded while a file on disk differed from what was staged.
C8_Witness ==
  /\ "write" \in steps
  /\ outcome = "ok"
  /\ \E p \in RepoPaths : workdir[p].kind = "file" /\ workdir[p] # index0[p]

\* C9: list_updated_files returns exactly the paths that differ between
\* the tree of HEAD and the staging area (a staged file that differs is in
\* it, a file changed only on disk is not), and returns nothing when
\* nothing differs.
C9_UpdatedFilesAreStagedChanges ==
  ("diff" \in steps) =>
     IF outcome = "Nothing to commit"
     THEN ChangedPaths = {}
     ELSE Range(updated_file_paths) = ChangedPaths

\* C10: the selector keeps a changed path exactly when its file name is
\* result_<8 digits>_<6 digits>.json, nothing before and nothing after.
C10_ExactPattern ==
  (sel_pc = "output") =>
     /\ Range(sel_out) \subseteq Range(sel_in)
     /\ \A p \in Range(sel_in) :
          p \in Range(sel_out) <=> IsResultName(file_name(p))

\* "(5.00) Test commit message"
MsgTestWithScore ==
  << "(", "5", ".", "0", "0", ")", " " >> \o MsgTest

\* C11: for case_count > 0 the built message is "(" + the quotient
\* total_score / case_count rounded to two decimals + ") " + the message
\* as given; case_count 2, total_score 10 and "Test commit message" give
\* "(5.00) Test commit message".
C11_MessageIsRoundedAverage ==
  (fmt_pc = "output" /\ fmt_result.case_count > 0) =>
     /\ HasScorePrefix(fmt_out, fmt_msg)
     /\ LET prefix == ScorePrefix(fmt_out, fmt_msg)
        IN  /\ IsAverage(prefix, fmt_result.total_score, fmt_result.case_count)
            /\ Len(prefix) = 4 \/ prefix[1] # "0"
            /\ Len(fmt_out) = Len(prefix) + Len(fmt_msg) + 3
     /\ (fmt_result = ExecResult(2, 10) /\ fmt_msg = MsgTest) => fmt_out = MsgTestWithScore

\* A message has been built for an average that is no whole number.
C11_Witness ==
  /\ fmt_pc = "output"
  /\ fmt_msg = MsgTest
  /\ fmt_result.case_count > 0
  /\ fmt_result.total_score % fmt_result.case_count # 0

\* C12: when HEAD cannot be resolved (no commit yet), a run with a message
\* fails with the repository error while listing the changes, before any
\* diff, selection, prompt or commit write; no commit is made, and no
\* commit the tool makes is without a parent.
C12_UnbornHeadFails ==
  /\ ( /\ pc \notin {"idle", "check_message", "open", "list"}
       /\ message # <<>>
       /\ env.cwd_in_repo
       /\ head0 = 0 ) =>
          /\ pc = "done"
          /\ outcome = "git2"
          /\ steps = {"open", "head"}
          /\ commits = <<>>
          /\ head = 0
  /\ Committed => NewCommit.parents # <<>>

\* A run has failed on a repository without a commit while files were staged.
C12_Witness ==
  /\ pc = "done"
  /\ message # <<>>
  /\ env.cwd_in_repo
  /\ head0 = 0
  /\ \E p \in RepoPaths : index[p].kind = "file"

\* The text of a quotient by zero: NaN for 0 / 0, inf otherwise.
NonFiniteText(total) ==
  IF total = 0 THEN <<"N", "a", "N">> ELSE <<"i", "n", "f">>

\* The file selected in the run is a well-formed result with case_count 0.
SelectedHasNoCases ==
  /\ "read" \in steps
  /\ IsExecResultFile(workdir[result_file_paths[1]])
  /\ \E m \in workdir[result_file_paths[1]].data.obj : m[1] = "case_count" /\ m[3] = 0

\* The total_score of the selected file.
SelectedTotal ==
  (CHOOSE m \in workdir[result_file_paths[1]].data.obj : m[1] = "total_score")[3]

\* C13: a selected file that parses with case_count = 0 is not turned
\* down: the run goes on through build_commit_message to commit_staged
\* with a message whose score prefix is the non-finite text, and the commit
\* that commit_staged makes carries that message (commit_staged fails only
\* for want of a signature).
C13_ZeroCasesCommitted ==
  SelectedHasNoCases =>
     /\ pc \in {"commit_staged", "done"}
     /\ outcome \notin {"io", "serde_json"}
     /\ result.case_count = 0
     /\ commit_message = <<"(">> \o NonFiniteText(SelectedTotal) \o <<")", " ">> \o message
     /\ pc = "done" =>
          /\ "write" \in steps
          /\ Committed <=> env.identity
          /\ Committed => NewCommit.message = commit_message

\* A commit has been made from a result file with case_count 0.
C13_Witness ==
  /\ pc = "done"
  /\ SelectedHasNoCases
  /\ Committed
  /\ NewCommit.message = <<"(", "i", "n", "f", ")", " ">> \o message

====
